---- MODULE Spec2Model ----
(***************************************************************************)
(* Model of the support-knowledge ingestion pipeline                       *)
(* (scripts/ingest_support_knowledge.py): keyword extraction, chunk        *)
(* filtering, embedding enrichment, document assembly and bulk indexing;   *)
(* and of the product loader and the product ingestion of                  *)
(* scripts/ingest_additional_products.py.                                  *)
(*                                                                         *)
(* A Python str is a sequence of one-character strings.  A Python dict is  *)
(* a record whose fields are the keys it has.                              *)
(***************************************************************************)
EXTENDS Integers, Sequences, FiniteSets, TLC

VARIABLES
    \* main() of ingest_support_knowledge.py
    pc,               \* position in main
    unstructured_key, \* UNSTRUCTURED_API_KEY is set
    openai_key,       \* OPENAI_API_KEY is set
    elements,         \* list returned by process_with_unstructured
    chunks,           \* list returned by filter_chunks
    enriched_chunks,  \* list built by generate_embeddings
    i,                \* i of the loop of generate_embeddings (chunks[i], 0-based)
    requests,         \* embedding requests sent to the provider, in order
    responses,        \* the provider's outcome for each request
    actions,          \* bulk actions handed to the index
    bulk_calls,       \* number of bulk() calls made
    bulk_result,      \* what bulk() did: nothing yet, raised, or returned
    log,              \* what the run printed
    raised,           \* main ended by raising
    \* extract_keywords called on its own
    kw_text,          \* argument
    kw_out,           \* returned list
    kw_pc,            \* "call" before, "ret" after, "off" while main runs
    \* filter_chunks called on its own, on a list of one element
    fc_element,       \* the element
    fc_out,           \* what it returned and printed
    fc_pc,            \* "call" before, "ret" after, "off" otherwise
    \* load_and_merge_products of ingest_additional_products.py
    pr_files,         \* the raw products of the three source files, in source order
    pr_out,           \* returned list
    pr_pc,            \* "call" before, "ret" after, "off" otherwise
    \* ingest_products of ingest_additional_products.py
    products,             \* argument: the list load_and_merge_products returned
    idx,                  \* number of products the loop has gone through
    index_calls,          \* the client.index calls made, in order
    ingest_success_count, \* success_count
    ingest_failed_count,  \* failed_count
    ingest_log,           \* what ingest_products printed
    ingest_pc             \* "loop", "ret" after the summary, "raised", "off" otherwise

vars == <<pc, unstructured_key, openai_key, elements, chunks, enriched_chunks, i,
          requests, responses, actions, bulk_calls, bulk_result, log, raised,
          kw_text, kw_out, kw_pc, fc_element, fc_out, fc_pc, pr_files, pr_out, pr_pc,
          products, idx, index_calls, ingest_success_count, ingest_failed_count,
          ingest_log, ingest_pc>>

mainVars == <<pc, unstructured_key, openai_key, elements, chunks, enriched_chunks, i,
              requests, responses, actions, bulk_calls, bulk_result, log, raised>>

kwVars == <<kw_text, kw_out, kw_pc>>

fcVars == <<fc_element, fc_out, fc_pc>>

prVars == <<pr_files, pr_out, pr_pc>>

ingestVars == <<products, idx, index_calls, ingest_success_count, ingest_failed_count,
                ingest_log, ingest_pc>>

\* the variables of the functions that are called on their own
sideVars == <<kwVars, fcVars, prVars, ingestVars>>

(***************************************************************************)
(* Characters and strings                                                  *)
(***************************************************************************)
LowerSeq == <<"a","b","c","d","e","f","g","h","i","j","k","l","m","n","o","p","q","r","s","t","u","v","w","x","y","z">>

UpperSeq == <<"A","B","C","D","E","F","G","H","I","J","K","L","M","N","O","P","Q","R","S","T","U","V","W","X","Y","Z">>

DigitSeq == <<"0","1","2","3","4","5","6","7","8","9">>

Range(s) == {s[n] : n \in DOMAIN s}

Lowers == Range(LowerSeq)

Uppers == Range(UpperSeq)

Letters == Lowers \cup Uppers

WordChars == Letters \cup Range(DigitSeq) \cup {"_"}

\* [a-zA-Z]
IsAlpha(c) == c \in Letters

\* \w of Python's re on ASCII text: letters, digits and the underscore
IsWordChar(c) == c \in WordChars

\* str.isspace on the characters used here
IsSpace(c) == c \in {" ", "\n", "\t"}

\* str.lower, one character
LowerChar(c) ==
    IF c \in Uppers
    THEN LowerSeq[CHOOSE n \in DOMAIN UpperSeq : UpperSeq[n] = c]
    ELSE c

\* str.lower
Lower(s) == [n \in DOMAIN s |-> LowerChar(s[n])]

Min(a, b) == IF a <= b THEN a ELSE b

\* s[:n]
Take(s, n) == SubSeq(s, 1, Min(n, Len(s)))

SetMin(S) == CHOOSE x \in S : \A y \in S : x <= y

\* str.strip: what lies between the first and the last character that is not
\* whitespace
Strip(s) ==
    IF \A n \in DOMAIN s : IsSpace(s[n]) THEN <<>>
    ELSE LET first == CHOOSE n \in DOMAIN s :
                         ~IsSpace(s[n]) /\ \A m \in 1..(n - 1) : IsSpace(s[m])
             last  == CHOOSE n \in DOMAIN s :
                         ~IsSpace(s[n]) /\ \A m \in (n + 1)..Len(s) : IsSpace(s[m])
         IN  SubSeq(s, first, last)

\* sep.join(parts)
RECURSIVE Join(_, _)
Join(sep, parts) ==
    IF parts = <<>> THEN <<>>
    ELSE IF Len(parts) = 1 THEN parts[1]
    ELSE parts[1] \o sep \o Join(sep, Tail(parts))

(***************************************************************************)
(* extract_keywords                                                        *)
(***************************************************************************)
stop_words == {
    <<"t","h","e">>, <<"a">>, <<"a","n">>, <<"a","n","d">>, <<"o","r">>, <<"b","u","t">>,
    <<"i","n">>, <<"o","n">>, <<"a","t">>, <<"t","o">>, <<"f","o","r">>, <<"o","f">>,
    <<"w","i","t","h">>, <<"b","y">>, <<"f","r","o","m">>, <<"a","s">>, <<"i","s">>,
    <<"w","a","s">>, <<"a","r","e">>, <<"w","e","r","e">>, <<"b","e","e","n">>,
    <<"b","e">>, <<"h","a","v","e">>, <<"h","a","s">>, <<"h","a","d">>, <<"d","o">>,
    <<"d","o","e","s">>, <<"d","i","d">>, <<"w","i","l","l">>, <<"w","o","u","l","d">>,
    <<"c","o","u","l","d">>, <<"s","h","o","u","l","d">>, <<"m","a","y">>,
    <<"m","i","g","h","t">>, <<"m","u","s","t">>, <<"c","a","n">>, <<"t","h","i","s">>,
    <<"t","h","a","t">>, <<"t","h","e","s","e">>, <<"t","h","o","s","e">>, <<"i">>,
    <<"y","o","u">>, <<"h","e">>, <<"s","h","e">>, <<"i","t">>, <<"w","e">>,
    <<"t","h","e","y">>, <<"w","h","a","t">>, <<"w","h","i","c","h">>, <<"w","h","o">>,
    <<"w","h","e","n">>, <<"w","h","e","r","e">>, <<"w","h","y">>, <<"h","o","w">>,
    <<"i","f">>, <<"t","h","e","n">>, <<"t","h","a","n">>, <<"m","y">>,
    <<"y","o","u","r">>, <<"h","i","s">>, <<"h","e","r">>, <<"i","t","s">>,
    <<"o","u","r">>, <<"t","h","e","i","r">>, <<"m","e">>, <<"h","i","m">>, <<"u","s">>,
    <<"t","h","e","m">>
}

\* \b at position p (between s[p-1] and s[p]): exactly one side is a word character
WordBoundary(s, p) ==
    LET before == p > 1 /\ IsWordChar(s[p - 1])
        after  == p <= Len(s) /\ IsWordChar(s[p])
    IN  before # after

\* number of consecutive [a-zA-Z] characters of s from position p
AlphaRun(s, p) ==
    LET others == {q \in p..Len(s) : ~IsAlpha(s[q])}
    IN  (IF others = {} THEN Len(s) + 1 ELSE SetMin(others)) - p

MinTokenLen == 3

\* MatchAt without the closing \b: the greedy run of letters
MatchAt_no_closing_boundary(s, p) ==
    LET run == AlphaRun(s, p)
    IN  IF WordBoundary(s, p) /\ run >= MinTokenLen THEN run ELSE 0

\* length of the match of \b[a-zA-Z]{3,}\b starting at p, 0 when there is none:
\* the greedy run, shortened (down to 3) until a \b follows it
MatchAt(s, p) ==
    LET run  == AlphaRun(s, p)
        ends == {k \in MinTokenLen..run : WordBoundary(s, p + k)}
    IN  IF WordBoundary(s, p) /\ ends # {}
        THEN CHOOSE k \in ends : \A m \in ends : m <= k
        ELSE 0

\* re.findall(r'\b[a-zA-Z]{3,}\b', s): non-overlapping matches, left to right.
\* A match can only start at a letter behind a \b; the scan tries these places in
\* turn and resumes behind a match, or one character on when there is none.
RECURSIVE FindAllFrom(_, _)
FindAllFrom(s, p) ==
    LET starts == {q \in p..Len(s) : IsAlpha(s[q]) /\ WordBoundary(s, q)}
    IN  IF starts = {} THEN <<>>
        ELSE LET q == SetMin(starts)
                 k == MatchAt(s, q)
             IN  IF k > 0
                 THEN <<SubSeq(s, q, q + k - 1)>> \o FindAllFrom(s, q + k)
                 ELSE FindAllFrom(s, q + 1)

FindAll(s) == FindAllFrom(s, 1)

\* [word for word in words if word not in stop_words]
NotStopWords(words) == SelectSeq(words, LAMBDA w : w \notin stop_words)

\* Counter(keywords): one [word, count] item per distinct word, in the order the
\* words were first inserted
RECURSIVE CounterItems(_, _)
CounterItems(words, items) ==
    IF words = <<>> THEN items
    ELSE LET w == Head(words)
             seen == \E n \in DOMAIN items : items[n].word = w
             next == IF seen
                     THEN [n \in DOMAIN items |->
                             IF items[n].word = w
                             THEN [items[n] EXCEPT !.count = @ + 1]
                             ELSE items[n]]
                     ELSE Append(items, [word |-> w, count |-> 1])
         IN  CounterItems(Tail(words), next)

Counter(words) == CounterItems(words, <<>>)

\* InsertPos with equally frequent words put in front of the earlier ones
InsertPos_ties_reversed(sorted, it) ==
    Cardinality({n \in DOMAIN sorted : sorted[n].count > it.count}) + 1

\* position of it in a list sorted by count, largest first: behind every item whose
\* count is at least its own (heapq.nlargest and sorted(reverse=True) are stable)
InsertPos(sorted, it) ==
    Cardinality({n \in DOMAIN sorted : sorted[n].count >= it.count}) + 1

RECURSIVE SortedByCount(_, _)
SortedByCount(items, sorted) ==
    IF items = <<>> THEN sorted
    ELSE LET it == Head(items)
             p  == InsertPos(sorted, it)
         IN  SortedByCount(Tail(items),
                 SubSeq(sorted, 1, p - 1) \o <<it>> \o SubSeq(sorted, p, Len(sorted)))

\* most_common keeping one item too many
most_common_one_more(items, n) == Take(SortedByCount(items, <<>>), n + 1)

\* Counter.most_common(n)
most_common(items, n) == Take(SortedByCount(items, <<>>), n)

TopKeywords == 20

extract_keywords(text) ==
    LET words    == FindAll(Lower(text))
        keywords == NotStopWords(words)
        top      == most_common(Counter(keywords), TopKeywords)
    IN  [n \in DOMAIN top |-> top[n].word]

(***************************************************************************)
(* extract_keywords on its own: the texts it is called with                *)
(***************************************************************************)
SeqsUpTo(S, n) == UNION {[1..m -> S] : m \in 0..n}

MaxPieces == 4

\* a stop word, a capitalised word, a word, a short word, letters next to a digit
\* and to an underscore, a word before punctuation
KwPieces ==
    {<<"t","h","e">>, <<"F","o","x">>, <<"f","o","x">>, <<"o","x">>,
     <<"c","a","t","9">>, <<"x","_","j","u","m","p","s">>, <<"d","o","g",".">>}

PieceTexts == {Join(<<" ">>, ps) : ps \in SeqsUpTo(KwPieces, MaxPieces)}

\* 23 distinct keywords, more than extract_keywords keeps
Lexicon == <<
    <<"A","l","p","h","a">>,
    <<"b","r","a","v","o">>,
    <<"c","h","a","r","l","i","e">>,
    <<"d","e","l","t","a">>,
    <<"e","c","h","o">>,
    <<"f","o","x","t","r","o","t">>,
    <<"g","o","l","f">>,
    <<"h","o","t","e","l">>,
    <<"i","n","d","i","a">>,
    <<"j","u","l","i","e","t">>,
    <<"k","i","l","o">>,
    <<"l","i","m","a">>,
    <<"m","i","k","e">>,
    <<"n","o","v","e","m","b","e","r">>,
    <<"o","s","c","a","r">>,
    <<"p","a","p","a">>,
    <<"q","u","e","b","e","c">>,
    <<"r","o","m","e","o">>,
    <<"s","i","e","r","r","a">>,
    <<"t","a","n","g","o">>,
    <<"u","n","i","f","o","r","m">>,
    <<"v","i","c","t","o","r">>,
    <<"w","h","i","s","k","e","y">>>>

MaxTail == 2

LexTails ==
    SeqsUpTo({<<"a","l","p","h","a">>, Lexicon[22], Lexicon[23], <<"t","h","e">>}, MaxTail)

LexTexts ==
    {Join(<<" ">>, Take(Lexicon, k) \o tail) : k \in 0..Len(Lexicon), tail \in LexTails}

ExampleText ==
    <<"t","h","e"," ","q","u","i","c","k"," ","b","r","o","w","n"," ","f","o","x"," ","t","h","e"," ","q","u","i","c","k"," ","b","r","o","w","n"," ","f","o","x"," ","j","u","m","p","s">>

KwTexts == PieceTexts \cup LexTexts \cup {ExampleText}

(***************************************************************************)
(* Python values                                                           *)
(***************************************************************************)
\* a str and a list of str, where either may turn up
Str(s) == [k |-> "str", v |-> s]

List(l) == [k |-> "list", v |-> l]

\* a dict, where something else may turn up
Dict(d) == [k |-> "dict", d |-> d]

EmptyDict == [x \in {} |-> x]

\* d.get(key, default)
DictGet(d, key, default) == IF key \in DOMAIN d THEN d[key] ELSE default

\* bool(value) of a str or a list
Truthy(val) == val.v # <<>>

\* a or b
Or(a, b) == IF Truthy(a) THEN a ELSE b

\* str(n) for n >= 0
RECURSIVE DecimalStr(_)
DecimalStr(n) ==
    IF n < 10 THEN <<DigitSeq[n + 1]>>
    ELSE DecimalStr(n \div 10) \o <<DigitSeq[(n % 10) + 1]>>

(***************************************************************************)
(* config.py                                                               *)
(***************************************************************************)
MIN_CHUNK_LENGTH == 100

EMBEDDING_DIMENSION == 1536

\* SUPPORT_DOCUMENT_PATH, set to "kb.md"
DOCUMENT_PATH == <<"k","b",".","m","d">>

\* SUPPORT_KNOWLEDGE_INDEX
OPENSEARCH_INDEX == "lexora_support"

(***************************************************************************)
(* filter_chunks                                                           *)
(***************************************************************************)
\* ResolveText joining every item of a list and looking at content only when
\* there is no text key
ResolveText_every_item(element) ==
    LET got    == IF "text" \in DOMAIN element THEN element.text
                  ELSE DictGet(element, "content", Str(<<>>))
        joined == IF got.k = "list" THEN Str(Join(<<" ">>, got.v)) ELSE got
    IN  IF Truthy(joined) THEN Strip(joined.v) ELSE <<>>

\* lines 110-117: the text of an element, joined, stringified and stripped
ResolveText(element) ==
    LET got    == Or(DictGet(element, "text", Str(<<>>)),
                     DictGet(element, "content", Str(<<>>)))
        joined == IF got.k = "list"
                  THEN Str(Join(<<" ">>, SelectSeq(got.v, LAMBDA t : t # <<>>)))
                  ELSE got
    IN  IF Truthy(joined) THEN Strip(joined.v) ELSE <<>>

\* PassesFilter with the minimum itself excluded
PassesFilter_strict(text) == text # <<>> /\ Len(text) > MIN_CHUNK_LENGTH

\* PassesFilter without the length test
PassesFilter_nonempty(text) == text # <<>>

\* line 120: the filter criteria
PassesFilter(text) == text # <<>> /\ Len(text) >= MIN_CHUNK_LENGTH

\* text.split('\n')[0]
FirstLine(s) ==
    LET breaks == {n \in DOMAIN s : s[n] = "\n"}
    IN  IF breaks = {} THEN s ELSE SubSeq(s, 1, SetMin(breaks) - 1)

MaxTitleLen == 100

\* ResolveTitle taking a first line of MaxTitleLen characters too
ResolveTitle_limit_included(element, text) ==
    LET metadata   == DictGet(element, "metadata", Dict(EmptyDict))
        title      == IF metadata.k = "dict"
                      THEN Or(Str(DictGet(metadata.d, "title", <<>>)),
                              Str(DictGet(metadata.d, "filename", <<>>))).v
                      ELSE <<>>
        first_line == Strip(FirstLine(text))
    IN  IF title # <<>> THEN title
        ELSE IF Len(first_line) <= MaxTitleLen THEN first_line
        ELSE <<>>

\* lines 125-134
ResolveTitle(element, text) ==
    LET metadata   == DictGet(element, "metadata", Dict(EmptyDict))
        title      == IF metadata.k = "dict"
                      THEN Or(Str(DictGet(metadata.d, "title", <<>>)),
                              Str(DictGet(metadata.d, "filename", <<>>))).v
                      ELSE <<>>
        first_line == Strip(FirstLine(text))
    IN  IF title # <<>> THEN title
        ELSE IF Len(first_line) < MaxTitleLen THEN first_line
        ELSE <<>>

\* lines 137-147: the cleaned-up element.  oid is the identity of the dict object:
\* the position of the element it was built from.
FilteredElement(element, text, oid) ==
    LET metadata == DictGet(element, "metadata", Dict(EmptyDict))
    IN  [text     |-> text,
         keywords |-> extract_keywords(text),
         title    |-> ResolveTitle(element, text),
         type     |-> DictGet(element, "type", "unknown"),
         metadata |-> [source     |-> IF metadata.k = "dict"
                                      THEN DictGet(metadata.d, "filename", DOCUMENT_PATH)
                                      ELSE DOCUMENT_PATH,
                       element_id |-> DictGet(element, "element_id", <<>>),
                       category   |-> DictGet(element, "category", "")],
         oid      |-> oid]

\* line 150: what is printed for a skipped element
SkippedEntry(text) == [ev |-> "skipped", length |-> Len(text), preview |-> Take(text, 50)]

\* Keep inserting at the front
Keep_front(filtered, chunk) == <<chunk>> \o filtered

\* line 148: filtered.append(filtered_element)
Keep(filtered, chunk) == Append(filtered, chunk)

\* lines 107-153: [filtered, printed] after the elements from position n on
RECURSIVE FilterFrom(_, _, _, _)
FilterFrom(els, n, filtered, printed) ==
    IF n > Len(els) THEN [filtered |-> filtered, printed |-> printed]
    ELSE LET text == ResolveText(els[n])
         IN  IF PassesFilter(text)
             THEN FilterFrom(els, n + 1,
                             Keep(filtered, FilteredElement(els[n], text, n)), printed)
             ELSE FilterFrom(els, n + 1, filtered, Append(printed, SkippedEntry(text)))

filter_chunks(els) == FilterFrom(els, 1, <<>>, <<>>)

(***************************************************************************)
(* generate_embeddings                                                     *)
(***************************************************************************)
\* An embedding is a list of floats, written as runs [val, n]: n components equal
\* to val, one after the other.
Run(val, n) == [val |-> val, n |-> n]

\* len(embedding)
RECURSIVE VecLen(_)
VecLen(embedding) ==
    IF embedding = <<>> THEN 0 ELSE Head(embedding).n + VecLen(Tail(embedding))

\* np.isnan(val), np.isinf(val)
IsNaN(val) == val = "nan"

IsInf(val) == val \in {"inf", "-inf"}

\* line 180: any(np.isnan(val) or np.isinf(val) for val in embedding)
AnyNanOrInf(embedding) ==
    \E r \in DOMAIN embedding :
        embedding[r].n > 0 /\ (IsNaN(embedding[r].val) \/ IsInf(embedding[r].val))

\* EmbedOutcome without the test for infinite components
EmbedOutcome_isnan_only(resp) ==
    IF resp.k = "error" THEN "error"
    ELSE IF VecLen(resp.v) # EMBEDDING_DIMENSION THEN "wrong_dimension"
    ELSE IF \E r \in DOMAIN resp.v : resp.v[r].n > 0 /\ IsNaN(resp.v[r].val)
         THEN "nan_or_inf"
    ELSE "ok"

\* lines 163-198: what one pass of the loop body makes of the provider's response
EmbedOutcome(resp) ==
    IF resp.k = "error" THEN "error"
    ELSE IF VecLen(resp.v) # EMBEDDING_DIMENSION THEN "wrong_dimension"
    ELSE IF AnyNanOrInf(resp.v) THEN "nan_or_inf"
    ELSE "ok"

\* d[key] = val
SetItem(d, key, val) == [f \in DOMAIN d \cup {key} |-> IF f = key THEN val ELSE d[f]]

\* AppendEnriched inserting at the front
AppendEnriched_front(enriched, chunk) == <<chunk>> \o enriched

\* line 186: enriched_chunks.append(chunk)
AppendEnriched(enriched, chunk) == Append(enriched, chunk)

\* NextChunk asking again for a chunk whose call raised
NextChunk_retry(n, outcome) == IF outcome = "error" THEN n ELSE n + 1

\* line 162: the loop goes on with the next chunk whatever the outcome was
NextChunk(n, outcome) == n + 1

\* what the loop body prints about chunk n (lines 176, 181, 196-197)
EmbedPrinted(n, chunk, resp) ==
    CASE EmbedOutcome(resp) = "error" ->
            <<[ev |-> "embedding_error", chunk |-> n, preview |-> Take(chunk.text, 100)]>>
      [] EmbedOutcome(resp) = "wrong_dimension" ->
            <<[ev |-> "wrong_dimension", chunk |-> n, length |-> VecLen(resp.v)]>>
      [] EmbedOutcome(resp) = "nan_or_inf" ->
            <<[ev |-> "nan_or_inf", chunk |-> n]>>
      [] OTHER -> <<>>

(***************************************************************************)
(* index_to_opensearch                                                     *)
(***************************************************************************)
IdPrefix == <<"s","u","p","p","o","r","t","_","c","h","u","n","k","_">>

\* f"support_chunk_{i}"
SyntheticId(n) == IdPrefix \o DecimalStr(n)

\* line 238: chunk["metadata"].get("element_id", f"support_chunk_{i}")
DocId(chunk, n) == DictGet(chunk.metadata, "element_id", SyntheticId(n))

\* Doc with the title stored as page_content
Doc_page_content_title(chunk) ==
    LET doc == [content       |-> chunk.text,
                text          |-> chunk.text,
                page_content  |-> DictGet(chunk, "title", <<>>),
                keywords      |-> DictGet(chunk, "keywords", <<>>),
                keywords_text |-> Join(<<" ">>, DictGet(chunk, "keywords", <<>>)),
                title         |-> DictGet(chunk, "title", <<>>),
                vector_field  |-> chunk.vector_field,
                metadata      |-> DictGet(chunk, "metadata", EmptyDict)]
    IN  IF "type" \in DOMAIN chunk THEN SetItem(doc, "type", chunk.type) ELSE doc

\* lines 212-234
Doc(chunk) ==
    LET doc == [content       |-> chunk.text,
                text          |-> chunk.text,
                page_content  |-> chunk.text,
                keywords      |-> DictGet(chunk, "keywords", <<>>),
                keywords_text |-> Join(<<" ">>, DictGet(chunk, "keywords", <<>>)),
                title         |-> DictGet(chunk, "title", <<>>),
                vector_field  |-> chunk.vector_field,
                metadata      |-> DictGet(chunk, "metadata", EmptyDict)]
    IN  IF "type" \in DOMAIN chunk THEN SetItem(doc, "type", chunk.type) ELSE doc

\* lines 236-240; oid is the identity of the chunk the action was built from
Action(chunk, n) ==
    [_index |-> OPENSEARCH_INDEX, _id |-> DocId(chunk, n), _source |-> Doc(chunk),
     oid |-> chunk.oid]

\* BuildActions going through the chunks from the last to the first
BuildActions_reversed(cs) ==
    [n \in DOMAIN cs |-> Action(cs[Len(cs) + 1 - n], Len(cs) - n)]

\* lines 209-241
BuildActions(cs) == [n \in DOMAIN cs |-> Action(cs[n], n - 1)]

\* an item of the list bulk() returns for a rejected action
FailedItem(action) ==
    [index |-> [_id |-> action._id, status |-> 400,
                error |-> [reason |-> "mapper_parsing_exception"]]]

MaxShown == 5

\* BulkPrinted going through all of failed
BulkPrinted_every_failure(success_count, failed) ==
    (IF failed # <<>>
     THEN <<[ev |-> "failed_to_index", failed_count |-> Len(failed)]>> \o
          [n \in DOMAIN failed |->
              [ev |-> "failed_item", doc_id |-> failed[n].index._id,
               reason |-> failed[n].index.error.reason]]
     ELSE <<>>)
    \o <<[ev |-> "indexing_complete", success_count |-> success_count,
          failed_count |-> Len(failed)]>>

\* lines 252-263: what is printed after bulk() returned (success_count, failed)
BulkPrinted(success_count, failed) ==
    LET shown == Take(failed, MaxShown)
    IN  (IF failed # <<>>
         THEN <<[ev |-> "failed_to_index", failed_count |-> Len(failed)]>> \o
              [n \in DOMAIN shown |->
                  [ev |-> "failed_item", doc_id |-> shown[n].index._id,
                   reason |-> shown[n].index.error.reason]]
         ELSE <<>>)
        \o <<[ev |-> "indexing_complete", success_count |-> success_count,
              failed_count |-> Len(failed)]>>

(***************************************************************************)
(* What the collaborators may return                                       *)
(***************************************************************************)
\* the first n characters of pat repeated
Fill(pat, n) == [m \in 1..n |-> pat[((m - 1) % Len(pat)) + 1]]

Prose(n) == Fill(<<"l","e","x","o","r","a"," ">>, n)

\* elements of the chunking service: texts of 50, 150 and 100 characters, one of 99
\* padded with whitespace, a content field holding a list, no text at all
ElShort ==
    [text |-> Str(Prose(50)), type |-> "Title", element_id |-> <<"e","3">>]

ElLong ==
    [text |-> Str(Prose(10) \o <<"\n">> \o Prose(139)), type |-> "NarrativeText",
     category |-> "faq"]

ElExact ==
    [text |-> Str(Prose(100)), element_id |-> <<"e","1">>,
     metadata |-> Dict([filename |-> <<"f",".","m","d">>])]

ElPadded == [text |-> Str(<<" ">> \o Prose(99) \o <<"\n">>)]

ElContent ==
    [content |-> List(<<<<" ">> \o Fill(<<"a">>, 49), <<>>, Fill(<<"b">>, 50) \o <<"\n">>>>),
     element_id |-> <<"e","2">>, metadata |-> Str(<<"n","/","a">>)]

ElEmpty == [type |-> "PageBreak"]

Elements == {ElShort, ElLong, ElExact, ElPadded, ElContent, ElEmpty}

MaxElements == 3

\* response.json() of the chunking service
ElementLists == SeqsUpTo(Elements, MaxElements)

\* what embeddings.create may do: raise, or return a vector that is well formed,
\* too short, or has a NaN or an infinite component
ProviderResponses ==
    {[k |-> "error"],
     [k |-> "vec", v |-> <<Run("0.5", EMBEDDING_DIMENSION)>>],
     [k |-> "vec", v |-> <<Run("0.5", 1500)>>],
     [k |-> "vec", v |-> <<Run("0.5", EMBEDDING_DIMENSION - 1), Run("nan", 1)>>],
     [k |-> "vec", v |-> <<Run("-inf", 1), Run("0.5", EMBEDDING_DIMENSION - 1)>>]}

\* the positions of the actions the index rejects
Rejections(acts) == SUBSET DOMAIN acts

\* the items of seq at the positions in keep, in order
RECURSIVE Pick(_, _, _)
Pick(seq, keep, n) ==
    IF n > Len(seq) THEN <<>>
    ELSE (IF n \in keep THEN <<seq[n]>> ELSE <<>>) \o Pick(seq, keep, n + 1)

(***************************************************************************)
(* main                                                                    *)
(***************************************************************************)
KwOff ==
    /\ kw_text = <<>>
    /\ kw_out = <<>>
    /\ kw_pc = "off"

FcOff ==
    /\ fc_element = EmptyDict
    /\ fc_out = [filtered |-> <<>>, printed |-> <<>>]
    /\ fc_pc = "off"

PrOff ==
    /\ pr_files = <<>>
    /\ pr_out = [normalized |-> <<>>, merged_file |-> <<>>]
    /\ pr_pc = "off"

IngestOff ==
    /\ products = <<>>
    /\ idx = 0
    /\ index_calls = <<>>
    /\ ingest_success_count = 0
    /\ ingest_failed_count = 0
    /\ ingest_log = <<>>
    /\ ingest_pc = "off"

Init ==
    /\ pc = "start"
    /\ unstructured_key \in BOOLEAN
    /\ openai_key \in BOOLEAN
    /\ elements = <<>>
    /\ chunks = <<>>
    /\ enriched_chunks = <<>>
    /\ i = 0
    /\ requests = <<>>
    /\ responses = <<>>
    /\ actions = <<>>
    /\ bulk_calls = 0
    /\ bulk_result = [k |-> "none"]
    /\ log = <<>>
    /\ raised = FALSE
    /\ KwOff
    /\ FcOff
    /\ PrOff
    /\ IngestOff

\* CheckKeys looking at UNSTRUCTURED_API_KEY only
CheckKeys_unstructured_only ==
    /\ pc = "start"
    /\ IF ~unstructured_key
       THEN /\ log' = Append(log, [ev |-> "key_not_set", key |-> "UNSTRUCTURED_API_KEY"])
            /\ pc' = "exit"
       ELSE /\ log' = log
            /\ pc' = "verify"
    /\ UNCHANGED <<unstructured_key, openai_key, elements, chunks, enriched_chunks, i,
                   requests, responses, actions, bulk_calls, bulk_result, raised, sideVars>>

\* lines 295-302: the two credentials
CheckKeys ==
    /\ pc = "start"
    /\ IF ~unstructured_key
       THEN /\ log' = Append(log, [ev |-> "key_not_set", key |-> "UNSTRUCTURED_API_KEY"])
            /\ pc' = "exit"
       ELSE IF ~openai_key
       THEN /\ log' = Append(log, [ev |-> "key_not_set", key |-> "OPENAI_API_KEY"])
            /\ pc' = "exit"
       ELSE /\ log' = log
            /\ pc' = "verify"
    /\ UNCHANGED <<unstructured_key, openai_key, elements, chunks, enriched_chunks, i,
                   requests, responses, actions, bulk_calls, bulk_result, raised, sideVars>>

\* verify_index with main going on whatever the answer
verify_index_answer_ignored ==
    /\ pc = "verify"
    /\ \E answer \in {"exists", "missing", "error"} :
          /\ log' = Append(log, [ev |-> "verify_index", answer |-> answer])
          /\ pc' = "document"
    /\ UNCHANGED <<unstructured_key, openai_key, elements, chunks, enriched_chunks, i,
                   requests, responses, actions, bulk_calls, bulk_result, raised, sideVars>>

\* lines 270-286 and 305-306: the index exists, does not, or cannot be asked
verify_index ==
    /\ pc = "verify"
    /\ \E answer \in {"exists", "missing", "error"} :
          /\ log' = Append(log, [ev |-> "verify_index", answer |-> answer])
          /\ pc' = IF answer = "exists" THEN "document" ELSE "exit"
    /\ UNCHANGED <<unstructured_key, openai_key, elements, chunks, enriched_chunks, i,
                   requests, responses, actions, bulk_calls, bulk_result, raised, sideVars>>

\* lines 309-311: os.path.exists(DOCUMENT_PATH)
CheckDocument ==
    /\ pc = "document"
    /\ \E exists \in BOOLEAN :
          IF exists
          THEN /\ log' = log
               /\ pc' = "process"
          ELSE /\ log' = Append(log, [ev |-> "document_not_found"])
               /\ pc' = "exit"
    /\ UNCHANGED <<unstructured_key, openai_key, elements, chunks, enriched_chunks, i,
                   requests, responses, actions, bulk_calls, bulk_result, raised, sideVars>>

\* MainExcept without the raise
MainExcept_swallows(printed) ==
    /\ log' = log \o printed \o <<[ev |-> "error_during_ingestion"]>>
    /\ raised' = FALSE
    /\ pc' = "exit"

\* lines 338-342: main prints the error and raises it again
MainExcept(printed) ==
    /\ log' = log \o printed \o <<[ev |-> "error_during_ingestion"]>>
    /\ raised' = TRUE
    /\ pc' = "exit"

\* lines 54-77 and 315: the chunking service answers, or the request fails
process_with_unstructured ==
    /\ pc = "process"
    /\ \/ /\ MainExcept(<<>>)
          /\ UNCHANGED elements
       \/ \E els \in ElementLists :
             /\ elements' = els
             /\ log' = Append(log, [ev |-> "received", count |-> Len(els)])
             /\ pc' = "filter"
             /\ UNCHANGED raised
    /\ UNCHANGED <<unstructured_key, openai_key, chunks, enriched_chunks, i,
                   requests, responses, actions, bulk_calls, bulk_result, sideVars>>

\* lines 318-322
FilterChunks ==
    /\ pc = "filter"
    /\ LET r == filter_chunks(elements)
       IN  /\ chunks' = r.filtered
           /\ log' = log \o r.printed
                     \o <<[ev |-> "filtered", of |-> Len(elements),
                           valid |-> Len(r.filtered)]>>
                     \o (IF r.filtered = <<>> THEN <<[ev |-> "no_valid_chunks"]>> ELSE <<>>)
           /\ pc' = IF r.filtered = <<>> THEN "exit" ELSE "embed"
    /\ i' = 0
    /\ UNCHANGED <<unstructured_key, openai_key, elements, enriched_chunks,
                   requests, responses, actions, bulk_calls, bulk_result, raised, sideVars>>

\* lines 162-198: one pass of the loop of generate_embeddings, on chunks[i]
EmbedChunk ==
    /\ pc = "embed"
    /\ i < Len(chunks)
    /\ \E resp \in ProviderResponses :
          LET chunk    == chunks[i + 1]
              outcome  == EmbedOutcome(resp)
              enriched == SetItem(chunk, "vector_field", resp.v)
          IN  /\ requests' = Append(requests, [chunk |-> i, input |-> chunk.text])
              /\ responses' = Append(responses, resp)
              /\ IF outcome = "ok"
                 THEN /\ chunks' = [chunks EXCEPT ![i + 1] = enriched]
                      /\ enriched_chunks' = AppendEnriched(enriched_chunks, enriched)
                 ELSE UNCHANGED <<chunks, enriched_chunks>>
              /\ log' = log \o EmbedPrinted(i, chunk, resp)
              /\ i' = NextChunk(i, outcome)
    /\ UNCHANGED <<pc, unstructured_key, openai_key, elements, actions, bulk_calls, bulk_result,
                   raised, sideVars>>

\* lines 200-201 and 327-329: generate_embeddings returns
EmbedReturn ==
    /\ pc = "embed"
    /\ i >= Len(chunks)
    /\ log' = log \o <<[ev |-> "generated", count |-> Len(enriched_chunks)]>>
                  \o (IF enriched_chunks = <<>>
                      THEN <<[ev |-> "no_valid_embeddings"]>> ELSE <<>>)
    /\ pc' = IF enriched_chunks = <<>> THEN "exit" ELSE "index"
    /\ UNCHANGED <<unstructured_key, openai_key, elements, chunks, enriched_chunks, i,
                   requests, responses, actions, bulk_calls, bulk_result, raised, sideVars>>

\* lines 204-267 and 332-336: the actions are built and handed to bulk(), which
\* raises or returns (success_count, failed)
index_to_opensearch ==
    /\ pc = "index"
    /\ actions' = BuildActions(enriched_chunks)
    /\ bulk_calls' = bulk_calls + 1
    /\ \/ /\ MainExcept(<<[ev |-> "bulk_error"]>>)
          /\ bulk_result' = [k |-> "raised"]
       \/ \E rejected \in Rejections(actions') :
             LET failed == [n \in DOMAIN Pick(actions', rejected, 1) |->
                               FailedItem(Pick(actions', rejected, 1)[n])]
                 success_count == Len(actions') - Len(failed)
             IN  /\ bulk_result' = [k |-> "returned", success_count |-> success_count,
                                     failed |-> failed]
                 /\ log' = log \o BulkPrinted(success_count, failed)
                               \o <<[ev |-> "completed_successfully"]>>
                 /\ pc' = "exit"
                 /\ UNCHANGED raised
    /\ UNCHANGED <<unstructured_key, openai_key, elements, chunks, enriched_chunks, i,
                   requests, responses, sideVars>>

Next ==
    \/ CheckKeys
    \/ verify_index
    \/ CheckDocument
    \/ process_with_unstructured
    \/ FilterChunks
    \/ EmbedChunk
    \/ EmbedReturn
    \/ index_to_opensearch

Spec == Init /\ [][Next]_vars

MainOff ==
    /\ pc = "off"
    /\ unstructured_key = FALSE
    /\ openai_key = FALSE
    /\ elements = <<>>
    /\ chunks = <<>>
    /\ enriched_chunks = <<>>
    /\ i = 0
    /\ requests = <<>>
    /\ responses = <<>>
    /\ actions = <<>>
    /\ bulk_calls = 0
    /\ bulk_result = [k |-> "none"]
    /\ log = <<>>
    /\ raised = FALSE

InitKw ==
    /\ kw_text \in KwTexts
    /\ kw_out = <<>>
    /\ kw_pc = "call"
    /\ MainOff
    /\ FcOff
    /\ PrOff
    /\ IngestOff

KwCall ==
    /\ kw_pc = "call"
    /\ kw_out' = extract_keywords(kw_text)
    /\ kw_pc' = "ret"
    /\ UNCHANGED <<kw_text, mainVars, fcVars, prVars, ingestVars>>

NextKw == KwCall

SpecKw == InitKw /\ [][NextKw]_vars

(***************************************************************************)
(* index_to_opensearch on more chunks than the elements of Spec give           *)
(***************************************************************************)
MaxDocs == 10

\* the k-th of n elements of 100 characters that carry distinct element ids
ProseElement(k) == [ElExact EXCEPT !.element_id = <<"e">> \o DecimalStr(k)]

ProseElements(n) == [k \in 1..n |-> ProseElement(k)]

ValidVector == <<Run("0.5", EMBEDDING_DIMENSION)>>

\* main stands before line 332: the chunking service returned n elements, all of
\* them passed the filter and got a valid embedding
AtIndex(n) ==
    \E r \in {filter_chunks(ProseElements(n))} :
    \E enriched \in {[k \in 1..n |-> SetItem(r.filtered[k], "vector_field", ValidVector)]} :
        /\ pc = "index"
        /\ unstructured_key = TRUE
        /\ openai_key = TRUE
        /\ elements = ProseElements(n)
        /\ chunks = enriched
        /\ enriched_chunks = enriched
        /\ i = n
        /\ requests = [k \in 1..n |-> [chunk |-> k - 1, input |-> r.filtered[k].text]]
        /\ responses = [k \in 1..n |-> [k |-> "vec", v |-> ValidVector]]
        /\ actions = <<>>
        /\ bulk_calls = 0
        /\ bulk_result = [k |-> "none"]
        /\ log = <<[ev |-> "verify_index", answer |-> "exists"],
                   [ev |-> "received", count |-> n]>>
                 \o r.printed
                 \o <<[ev |-> "filtered", of |-> n, valid |-> n],
                      [ev |-> "generated", count |-> n]>>
        /\ raised = FALSE

InitIndex ==
    /\ \E n \in 1..MaxDocs : AtIndex(n)
    /\ KwOff
    /\ FcOff
    /\ PrOff
    /\ IngestOff

NextIndex == index_to_opensearch

SpecIndex == InitIndex /\ [][NextIndex]_vars

(***************************************************************************)
(* filter_chunks on one element of any shape                                   *)
(***************************************************************************)
Absent == [k |-> "absent"]

\* d, with key set unless the value is absent
WithKey(d, key, val) == IF val.k = "absent" THEN d ELSE SetItem(d, key, val)

MaxItems == 3

\* the items of a text that is a list
TextItems == {<<>>, <<"a">>, <<" ","b">>}

Line(n) == Fill(<<"f","a","q","s"," ">>, n - 1) \o <<"x">>

\* long texts: first lines of 99 and 100 characters, of 99 and a blank, a short
\* first line that ends in a blank, a single line, a list with an empty item
LongTexts ==
    {Str(Line(99) \o <<"\n">> \o Prose(20)),
     Str(Line(100) \o <<"\n">> \o Prose(20)),
     Str(Line(99) \o <<" ","\n">> \o Prose(20)),
     Str(Line(3) \o <<" ","\n">> \o Prose(120)),
     Str(Prose(150)),
     List(<<Fill(<<"a">>, 60), <<>>, Fill(<<"b">>, 60)>>)}

FcTexts ==
    {Absent, Str(<<>>), Str(<<" "," ">>), Str(<<" ","a","b"," ">>)}
    \cup {List(l) : l \in SeqsUpTo(TextItems, MaxItems)}
    \cup LongTexts

FcContents ==
    {Absent, Str(<<"c"," ","d">>), Str(Prose(100)), List(<<<<"x">>, <<>>, <<"y">>>>)}

FcMetadata ==
    {Absent, Dict(EmptyDict), Str(<<"n","/","a">>),
     Dict([title |-> <<"T">>]),
     Dict([filename |-> <<"f",".","m","d">>]),
     Dict([title |-> <<>>, filename |-> <<"f",".","m","d">>]),
     Dict([title |-> <<"T">>, filename |-> <<"f",".","m","d">>])}

FcElements ==
    {WithKey(WithKey(WithKey(EmptyDict, "text", t), "content", c), "metadata", m) :
        t \in FcTexts, c \in FcContents, m \in FcMetadata}

InitFc ==
    /\ fc_element \in FcElements
    /\ fc_out = [filtered |-> <<>>, printed |-> <<>>]
    /\ fc_pc = "call"
    /\ MainOff
    /\ KwOff
    /\ PrOff
    /\ IngestOff

FcCall ==
    /\ fc_pc = "call"
    /\ fc_out' = filter_chunks(<<fc_element>>)
    /\ fc_pc' = "ret"
    /\ UNCHANGED <<fc_element, mainVars, kwVars, prVars, ingestVars>>

NextFc == FcCall

SpecFc == InitFc /\ [][NextFc]_vars

(***************************************************************************)
(* ingest_additional_products.py: _normalize_product, load_and_merge_products  *)
(***************************************************************************)
\* None, and JSON null
None == [k |-> "none", v |-> <<>>]

\* d.setdefault(key, val)
SetDefault(d, key, val) == IF key \in DOMAIN d THEN d ELSE SetItem(d, key, val)

\* s.startswith(prefix)
StartsWith(s, prefix) == Len(s) >= Len(prefix) /\ SubSeq(s, 1, Len(prefix)) = prefix

MinDescriptionLen == 40

\* lines 155-170: the schema of a raw product and the fields read from it
Schema(p) ==
    IF "id" \in DOMAIN p /\ "name" \in DOMAIN p THEN "additional"
    ELSE IF "product_id" \in DOMAIN p /\ "title" \in DOMAIN p THEN "sample"
    ELSE "unknown"

RawId(p) == IF Schema(p) = "additional" THEN p.id ELSE p.product_id

RawName(p) == IF Schema(p) = "additional" THEN p.name ELSE DictGet(p, "title", "")

RawDescription(p) == Or(DictGet(p, "description", Str(<<>>)), Str(<<>>)).v

RawImageUrl(p) ==
    IF Schema(p) = "additional" THEN DictGet(p, "image_url", Str(<<>>))
    ELSE LET imgs == Or(DictGet(p, "product_images_urls", None), List(<<>>))
         IN  IF Truthy(imgs) THEN Str(imgs.v[1]) ELSE Str(<<>>)

\* lines 181-195: the product with the ingest fields filled in
Normalized(p) ==
    LET with_ids   == SetItem(SetItem(p, "id", RawId(p)),
                              "product_id", DictGet(p, "product_id", RawId(p)))
        with_names == SetItem(SetItem(with_ids, "name", RawName(p)),
                              "title", DictGet(p, "title", RawName(p)))
        with_texts == SetItem(SetItem(with_names, "description", Str(RawDescription(p))),
                              "image_url", RawImageUrl(p))
        with_imgs  == IF \/ "product_images_urls" \notin DOMAIN p
                         \/ ~Truthy(p.product_images_urls)
                      THEN SetItem(with_texts, "product_images_urls",
                                   List(<<RawImageUrl(p).v>>))
                      ELSE with_texts
    IN  SetDefault(SetDefault(with_imgs, "availability_status", "in_stock"),
                   "rating", "4.7")

\* lines 139-195: None, or the normalized product
_normalize_product(p) ==
    IF Schema(p) = "unknown" THEN None
    ELSE IF \/ ~Truthy(RawImageUrl(p))
            \/ RawImageUrl(p).k # "str"
            \/ ~StartsWith(RawImageUrl(p).v, <<"h","t","t","p">>) THEN None
    ELSE IF Len(Strip(RawDescription(p))) < MinDescriptionLen THEN None
    ELSE Dict(Normalized(p))

\* lines 123-136: the list of a file, [] for a file that is missing or unreadable
_load_json_if_exists(file) == IF file.k = "list" THEN file.v ELSE <<>>

\* the products of the f-th file, each with the identity oid of its dict object
Loaded(files, f) ==
    LET data == _load_json_if_exists(files[f])
    IN  [n \in DOMAIN data |-> SetItem(data[n], "oid", <<f, n>>)]

\* lines 199-202: additional, sample and premium products, in this order
raw_products(files) == Loaded(files, 1) \o Loaded(files, 2) \o Loaded(files, 3)

\* MergeFrom reserving the id of a raw product before normalizing it
RECURSIVE MergeFrom_reserves_first(_, _, _, _)
MergeFrom_reserves_first(raw, n, normalized, seen_ids) ==
    IF n > Len(raw) THEN normalized
    ELSE LET norm == _normalize_product(raw[n])
             pid  == IF Schema(raw[n]) = "unknown" THEN "" ELSE RawId(raw[n])
         IN  IF pid \in seen_ids
             THEN MergeFrom_reserves_first(raw, n + 1, normalized, seen_ids)
             ELSE IF norm.k = "none"
             THEN MergeFrom_reserves_first(raw, n + 1, normalized, seen_ids \cup {pid})
             ELSE MergeFrom_reserves_first(raw, n + 1, Append(normalized, norm.d),
                                           seen_ids \cup {pid})

\* lines 208-217: the loop over raw_products from position n on
RECURSIVE MergeFrom(_, _, _, _)
MergeFrom(raw, n, normalized, seen_ids) ==
    IF n > Len(raw) THEN normalized
    ELSE LET norm == _normalize_product(raw[n])
         IN  IF norm.k = "none" THEN MergeFrom(raw, n + 1, normalized, seen_ids)
             ELSE IF norm.d.id \in seen_ids
             THEN MergeFrom(raw, n + 1, normalized, seen_ids)
             ELSE MergeFrom(raw, n + 1, Append(normalized, norm.d),
                            seen_ids \cup {norm.d.id})

\* lines 198-217 and 230: the list returned
load_and_merge_products(files) == MergeFrom(raw_products(files), 1, <<>>, {})

\* a description of n characters that neither begins nor ends with a blank
Description(n) == Prose(n - 1) \o <<"x">>

Url(scheme) == Str(scheme \o <<":","/","/","x">>)

\* raw products: two of the additional schema with the same id, the second with a
\* description of 39 characters between blanks; one whose image is no web address;
\* two of the sample schema, the first with the id of the first two, the second
\* with null among its fields; one of neither schema
RawProducts ==
    {[id |-> "p1", name |-> "lamp", description |-> Str(Description(40)),
      image_url |-> Url(<<"h","t","t","p">>)],
     [id |-> "p1", name |-> "lamp two",
      description |-> Str(<<" ">> \o Description(39) \o <<" ">>),
      image_url |-> Url(<<"h","t","t","p","s">>)],
     [id |-> "p2", name |-> "desk", description |-> Str(Description(45)),
      image_url |-> Url(<<"f","t","p">>), rating |-> "3.9"],
     [product_id |-> "p1", title |-> "chair", description |-> Str(Description(41)),
      product_images_urls |-> List(<<Url(<<"h","t","t","p","s">>).v, <<"y">>>>)],
     [product_id |-> "p2", title |-> "sofa", description |-> Str(Description(40)),
      product_images_urls |-> List(<<Url(<<"h","t","t","p">>).v>>), image_url |-> None],
     [id |-> "p3", title |-> "vase", description |-> None]}

MaxRaw == 3

\* what a source file may be: not there or not readable as JSON, or a list
Files(n) ==
    {[k |-> "unavailable"]}
    \cup {[k |-> "list", v |-> l] : l \in SeqsUpTo(RawProducts, n)}

InitPr ==
    /\ \E a \in Files(MaxRaw) :
       \E b \in Files(MaxRaw - Len(_load_json_if_exists(a))) :
       \E c \in Files(MaxRaw - Len(_load_json_if_exists(a))
                               - Len(_load_json_if_exists(b))) :
          pr_files = <<a, b, c>>
    /\ pr_out = [normalized |-> <<>>, merged_file |-> None]
    /\ pr_pc = "call"
    /\ MainOff
    /\ KwOff
    /\ FcOff
    /\ IngestOff

PrCall ==
    /\ pr_pc = "call"
    /\ \E normalized \in {load_and_merge_products(pr_files)} :
       \E written \in BOOLEAN :
          \* lines 219-228: products_merged.json is written, or the attempt fails
          pr_out' = [normalized  |-> normalized,
                     merged_file |-> IF written THEN List(normalized) ELSE None]
    /\ pr_pc' = "ret"
    /\ UNCHANGED <<pr_files, mainVars, kwVars, fcVars, ingestVars>>

NextPr == PrCall

SpecPr == InitPr /\ [][NextPr]_vars

(***************************************************************************)
(* ingest_additional_products.py: ingest_products                              *)
(***************************************************************************)
PRODUCT_INDEX == "lexora_products"

\* the keys line 260 reads with product[...]
RequiredKeys == {"name", "description", "category"}

\* line 260: the parts the f-string puts side by side, a blank between them
TextForEmbedding(product) ==
    <<product.name, product.description.v,
      DictGet(product, "semantic_description", ""),
      product.category, DictGet(product, "brand", "")>>

\* lines 66-78 and 81-97: None, or the list the model returned
ImageEmbeddings == {None, List(<<Run("0.1", 1280)>>)}

TextEmbeddings == {None, List(<<Run("0.5", EMBEDDING_DIMENSION)>>)}

\* lines 269-279: the document, a vector field for each embedding there is
ProductDoc(product, image_embedding, text_embedding) ==
    LET doc      == SetItem(SetItem(product, "created_at", "now"), "updated_at", "now")
        with_img == IF Truthy(image_embedding)
                    THEN SetItem(doc, "image_embedding_vector", image_embedding.v)
                    ELSE doc
    IN  IF Truthy(text_embedding)
        THEN SetItem(with_img, "text_embedding_vector", text_embedding.v)
        ELSE with_img

\* raw products of additional_products.json: with category and brand, of the
\* sample schema with a semantic description, without a category, without a brand
IngestRaw ==
    {[id |-> "p1", name |-> "lamp", description |-> Str(Description(40)),
      image_url |-> Url(<<"h","t","t","p">>), category |-> "lighting",
      brand |-> "lexora"],
     [product_id |-> "p2", title |-> "sofa", description |-> Str(Description(41)),
      product_images_urls |-> List(<<Url(<<"h","t","t","p","s">>).v>>),
      category |-> "furniture", brand |-> "lexora", semantic_description |-> "soft"],
     [id |-> "p3", name |-> "desk", description |-> Str(Description(45)),
      image_url |-> Url(<<"h","t","t","p">>), brand |-> "lexora"],
     [id |-> "p4", name |-> "rug", description |-> Str(Description(60)),
      image_url |-> Url(<<"h","t","t","p","s">>), category |-> "textiles"]}

MaxProducts == 3

\* lines 347-350 of main: ingest_products is handed what load_and_merge_products
\* returned
InitIngest ==
    /\ \E raw \in SeqsUpTo(IngestRaw, MaxProducts) :
          products = load_and_merge_products(
                         <<[k |-> "list", v |-> raw], [k |-> "unavailable"],
                           [k |-> "unavailable"]>>)
    /\ idx = 0
    /\ index_calls = <<>>
    /\ ingest_success_count = 0
    /\ ingest_failed_count = 0
    /\ ingest_log = <<>>
    /\ ingest_pc = "loop"
    /\ MainOff
    /\ KwOff
    /\ FcOff
    /\ PrOff

\* lines 242-293: one pass of the loop, on products[idx + 1].  product['category']
\* at line 260 raises KeyError for a product without the key, outside any try
IngestProduct ==
    /\ ingest_pc = "loop"
    /\ idx < Len(products)
    /\ LET product == products[idx + 1]
       IN  \E image_embedding \in ImageEmbeddings :
              IF ~(RequiredKeys \subseteq DOMAIN product)
              THEN /\ ingest_log' = ingest_log \o
                         <<[ev |-> "image_embedding", product |-> idx + 1,
                            ok |-> Truthy(image_embedding)],
                           [ev |-> "KeyError", product |-> idx + 1]>>
                   /\ ingest_pc' = "raised"
                   /\ UNCHANGED <<idx, index_calls, ingest_success_count,
                                  ingest_failed_count>>
              ELSE \E text_embedding \in TextEmbeddings, raises \in BOOLEAN :
                      /\ index_calls' = Append(index_calls,
                             [index  |-> PRODUCT_INDEX,
                              id     |-> product.id,
                              body   |-> ProductDoc(product, image_embedding,
                                                    text_embedding),
                              raised |-> raises])
                      /\ ingest_log' = ingest_log \o
                             <<[ev |-> "image_embedding", product |-> idx + 1,
                                ok |-> Truthy(image_embedding)],
                               [ev |-> "text_embedding", product |-> idx + 1,
                                input |-> TextForEmbedding(product),
                                ok |-> Truthy(text_embedding)],
                               [ev |-> IF raises THEN "error_indexing" ELSE "indexed",
                                product |-> idx + 1]>>
                      /\ ingest_success_count' =
                             IF raises THEN ingest_success_count
                             ELSE ingest_success_count + 1
                      /\ ingest_failed_count' =
                             IF raises THEN ingest_failed_count + 1
                             ELSE ingest_failed_count
                      /\ idx' = idx + 1
                      /\ UNCHANGED ingest_pc
    /\ UNCHANGED <<products, mainVars, kwVars, fcVars, prVars>>

\* lines 295-301: the summary
IngestSummary ==
    /\ ingest_pc = "loop"
    /\ idx >= Len(products)
    /\ ingest_log' = Append(ingest_log,
                            [ev |-> "summary", total |-> Len(products),
                             succeeded |-> ingest_success_count,
                             failed |-> ingest_failed_count])
    /\ ingest_pc' = "ret"
    /\ UNCHANGED <<products, idx, index_calls, ingest_success_count,
                   ingest_failed_count, mainVars, kwVars, fcVars, prVars>>

NextIngest ==
    \/ IngestProduct
    \/ IngestSummary

SpecIngest == InitIngest /\ [][NextIngest]_vars

(***************************************************************************)
(* Properties                                                              *)
(***************************************************************************)
\* filter_chunks has returned
Filtered == \E n \in DOMAIN log : log[n].ev = "filtered"

\* generate_embeddings has returned
Generated == \E n \in DOMAIN log : log[n].ev = "generated"

\* ResolveText, tabulated over the elements the chunking service can return
ResolvedOf == [e \in Elements |-> ResolveText(e)]

\* the resolved text of elements[n] and its length
Resolved(n) == ResolvedOf[elements[n]]

ResolvedLen(n) == Len(Resolved(n))

\* elements[n] has a chunk
Kept(n) == \E c \in DOMAIN chunks : chunks[c].oid = n

\* a provider response that is a vector of the configured dimension with finite
\* components only
ValidResponse(resp) ==
    /\ resp.k = "vec"
    /\ VecLen(resp.v) = EMBEDDING_DIMENSION
    /\ \A r \in DOMAIN resp.v :
          resp.v[r].val \in {"nan", "inf", "-inf"} => resp.v[r].n = 0

\* C1: once filter_chunks has returned, an element has a chunk exactly when its
\* resolved text is non-empty and at least MIN_CHUNK_LENGTH long; elements of
\* 50, 150 and 100 characters give the chunks of 150 and 100 characters.
C1_LengthFilter ==
    Filtered =>
        /\ \A n \in DOMAIN elements :
              Kept(n) <=> (ResolvedLen(n) > 0 /\ ResolvedLen(n) >= MIN_CHUNK_LENGTH)
        /\ elements = <<ElShort, ElLong, ElExact>> =>
              /\ Len(chunks) = 2
              /\ Len(chunks[1].text) = 150
              /\ Len(chunks[2].text) = 100

\* an element exactly at the minimum was kept and one just below it was dropped
C1_Witness ==
    /\ Filtered
    /\ \E n, m \in DOMAIN elements :
          /\ ResolvedLen(n) = MIN_CHUNK_LENGTH /\ Kept(n)
          /\ ResolvedLen(m) = MIN_CHUNK_LENGTH - 1 /\ ~Kept(m)

\* C2: every action handed to the index was built from an element that passed the
\* length filter and for which the provider returned a valid vector, which is the
\* vector of the document; no two actions come from the same element.
C2_DocumentsFromValidChunks ==
    /\ \A a \in DOMAIN actions :
          LET o == actions[a].oid
          IN  /\ o \in DOMAIN elements
              /\ ResolvedLen(o) > 0 /\ ResolvedLen(o) >= MIN_CHUNK_LENGTH
              /\ actions[a]._source.text = Resolved(o)
              /\ \E r \in DOMAIN requests :
                    /\ chunks[requests[r].chunk + 1].oid = o
                    /\ ValidResponse(responses[r])
                    /\ actions[a]._source.vector_field = responses[r].v
    /\ \A a, b \in DOMAIN actions : a # b => actions[a].oid # actions[b].oid

\* documents were submitted in a run that dropped an element and a chunk
C2_Witness ==
    /\ actions # <<>>
    /\ Len(actions) < Len(chunks)
    /\ Len(chunks) < Len(elements)

\* the elements that carry an element_id carry pairwise distinct ones
SourceIdsDistinct ==
    \A n, m \in DOMAIN elements :
        (/\ n # m
         /\ "element_id" \in DOMAIN elements[n]
         /\ "element_id" \in DOMAIN elements[m])
        => elements[n].element_id # elements[m].element_id

\* C3: the _id of the actions of one run are pairwise distinct (given that the
\* source repeats no element_id), also when no element has an element_id.
C3_IdsDistinct ==
    SourceIdsDistinct =>
        \A a, b \in DOMAIN actions : a # b => actions[a]._id # actions[b]._id

\* C4: the _id of the action at position n is the chunk's element_id when that is
\* non-empty, and support_chunk_<n> otherwise.
C4_IdOrSynthetic ==
    \A a \in DOMAIN actions :
        LET element_id == enriched_chunks[a].metadata.element_id
        IN  actions[a]._id =
                IF element_id # <<>> THEN element_id ELSE SyntheticId(a - 1)

\* C5: every enriched chunk carries a vector of EMBEDDING_DIMENSION components,
\* none of them NaN or infinite; and once generate_embeddings has returned, every
\* chunk behind one whose response was invalid has had its request.
C5_VectorsValid ==
    /\ \A n \in DOMAIN enriched_chunks :
          /\ "vector_field" \in DOMAIN enriched_chunks[n]
          /\ ValidResponse([k |-> "vec", v |-> enriched_chunks[n].vector_field])
    /\ Generated =>
          \A r \in DOMAIN responses :
              ~ValidResponse(responses[r]) =>
                  \A c \in (requests[r].chunk + 1)..(Len(chunks) - 1) :
                      \E later \in DOMAIN requests :
                          later > r /\ requests[later].chunk = c

\* a 1500-component response and a NaN response were dropped and a later chunk
\* was enriched
C5_Witness ==
    /\ Generated
    /\ \E r, s, t \in DOMAIN responses :
          /\ r < t /\ s < t
          /\ responses[r].k = "vec" /\ VecLen(responses[r].v) = 1500
          /\ responses[s].k = "vec"
          /\ \E x \in DOMAIN responses[s].v : responses[s].v[x].val = "nan"
          /\ ValidResponse(responses[t])
    /\ Len(enriched_chunks) = 1

\* C6: the requests made so far are for chunks 0, 1, 2, ... in this order, one
\* each, with the chunk's text; no retry, no chunk left out once the function has
\* returned; and the run never raises between the first request and the return.
C6_OneRequestPerChunk ==
    /\ Len(requests) <= Len(chunks)
    /\ Len(responses) = Len(requests)
    /\ \A r \in DOMAIN requests :
          requests[r] = [chunk |-> r - 1, input |-> chunks[r].text]
    /\ Generated => Len(requests) = Len(chunks)
    /\ (raised /\ requests # <<>>) => Generated

\* three chunks were requested although the first call raised and the second
\* returned an invalid vector
C6_Witness ==
    /\ Generated
    /\ Len(requests) = 3
    /\ responses[1].k = "error"
    /\ responses[2].k = "vec" /\ ~ValidResponse(responses[2])
    /\ ValidResponse(responses[3])

\* C7: the enriched chunks are the chunks whose response was valid, each once and
\* in the order of the chunks.
C7_EnrichedSubsequence ==
    /\ Len(enriched_chunks) <= Len(chunks)
    /\ \A a, b \in DOMAIN enriched_chunks :
          a < b => enriched_chunks[a].oid < enriched_chunks[b].oid
    /\ {enriched_chunks[n].oid : n \in DOMAIN enriched_chunks}
          = {chunks[requests[r].chunk + 1].oid :
                r \in {x \in DOMAIN responses : ValidResponse(responses[x])}}
    /\ \A n \in DOMAIN enriched_chunks :
          \E c \in DOMAIN chunks :
              /\ chunks[c] = enriched_chunks[n]
              /\ enriched_chunks[n].text = Resolved(chunks[c].oid)

\* two chunks survived, in order, around one that did not
C7_Witness ==
    /\ Generated
    /\ Len(chunks) = 3
    /\ Len(enriched_chunks) = 2
    /\ ~ValidResponse(responses[2])

\* C8: the chunks are the elements that pass the length filter, one chunk each, in
\* the order of the elements, each with the resolved text of its element.
C8_FilteredSubsequence ==
    Filtered =>
        /\ \A a, b \in DOMAIN chunks : a < b => chunks[a].oid < chunks[b].oid
        /\ {chunks[c].oid : c \in DOMAIN chunks}
              = {n \in DOMAIN elements : ResolvedLen(n) >= MIN_CHUNK_LENGTH}
        /\ \A c \in DOMAIN chunks :
              chunks[c].text = Resolved(chunks[c].oid)

\* a discarded element between two kept ones
C8_Witness ==
    /\ Filtered
    /\ Len(elements) = 3
    /\ Len(chunks) = 2
    /\ chunks[1].oid = 1
    /\ chunks[2].oid = 3

\* the tokens extract_keywords ranks: the non-stop-word matches of the lowercased text
KwTokens == NotStopWords(FindAll(Lower(kw_text)))

\* a ranks before b among toks: more frequent, or as frequent and first seen earlier
RanksBefore(toks, a, b) ==
    LET count(w) == Cardinality({n \in DOMAIN toks : toks[n] = w})
        first(w) == CHOOSE n \in DOMAIN toks :
                        toks[n] = w /\ \A m \in 1..(n - 1) : toks[m] # w
    IN  \/ count(a) > count(b)
        \/ count(a) = count(b) /\ first(a) < first(b)

\* C9: extract_keywords returns at most 20 entries, each of lowercase letters only,
\* of length 3 or more, not a stop word, and no entry twice.
C9_KeywordsWellFormed ==
    kw_pc = "ret" =>
        /\ Len(kw_out) <= 20
        /\ \A n \in DOMAIN kw_out :
              /\ \A p \in DOMAIN kw_out[n] : kw_out[n][p] \in Lowers
              /\ Len(kw_out[n]) >= 3
              /\ kw_out[n] \notin stop_words
        /\ \A n, m \in DOMAIN kw_out : n # m => kw_out[n] # kw_out[m]

\* 20 keywords returned for a text with capitals, a stop word and more than 20
\* distinct keywords
C9_Witness ==
    /\ kw_pc = "ret"
    /\ Len(kw_out) = 20
    /\ Cardinality(Range(KwTokens)) > 20
    /\ \E p \in DOMAIN kw_text : kw_text[p] \in Uppers
    /\ LET words == FindAll(Lower(kw_text))
       IN  \E n \in DOMAIN words : words[n] \in stop_words

ExampleKeywords ==
    <<<<"q","u","i","c","k">>, <<"b","r","o","w","n">>, <<"f","o","x">>,
      <<"j","u","m","p","s">>>>

\* C10: the result lists tokens of the text by frequency, largest first, equally
\* frequent ones in the order of their first appearance; a token left out ranks
\* behind all 20 that are kept; the example text gives quick, brown, fox, jumps.
C10_RankedByFrequencyThenFirstSeen ==
    kw_pc = "ret" =>
        LET toks == KwTokens
        IN  /\ Range(kw_out) \subseteq Range(toks)
            /\ \A n, m \in DOMAIN kw_out :
                  n < m => RanksBefore(toks, kw_out[n], kw_out[m])
            /\ \A w \in Range(toks) \ Range(kw_out) :
                  /\ Len(kw_out) = 20
                  /\ \A n \in DOMAIN kw_out : RanksBefore(toks, kw_out[n], w)
            /\ kw_text = ExampleText => kw_out = ExampleKeywords

\* the example text was ranked
C10_Witness ==
    /\ kw_pc = "ret"
    /\ kw_text = ExampleText
    /\ kw_out = ExampleKeywords

\* the maximal runs of letters of s that are at least MinTokenLen long and have
\* a character for which sep holds, or an end of s, on either side
Runs(s, sep(_)) ==
    LET starts == {a \in DOMAIN s : IsAlpha(s[a]) /\ (a = 1 \/ ~IsAlpha(s[a - 1]))}
        end(a) == a + AlphaRun(s, a) - 1
    IN  {SubSeq(s, a, end(a)) : a \in
            {a \in starts : /\ end(a) - a + 1 >= MinTokenLen
                            /\ (a = 1 \/ sep(s[a - 1]))
                            /\ (end(a) = Len(s) \/ sep(s[end(a) + 1]))}}

\* kw_out holds words only, and every one of them unless there are more than
\* TopKeywords
KeywordsAre(words) ==
    /\ Range(kw_out) \subseteq words
    /\ Cardinality(words) <= TopKeywords => words \subseteq Range(kw_out)

\* C11 as stated: the tokens are the runs of three or more letters of the lowercased
\* text, every character that is not a letter (digit, underscore, punctuation,
\* whitespace) separating them, so that the cat of cat9 is a token
C11_NonLettersSeparate ==
    kw_pc = "ret" =>
        KeywordsAre(Runs(Lower(kw_text), LAMBDA c : ~IsAlpha(c)) \ stop_words)

\* C11 amended: the tokens are the runs of three or more letters of the lowercased
\* text that have an end of the text or a character other than a letter, a digit
\* and an underscore on either side; a run that touches a digit or an underscore is
\* no token
C11_NonWordCharsSeparate ==
    kw_pc = "ret" =>
        KeywordsAre(Runs(Lower(kw_text), LAMBDA c : ~IsWordChar(c)) \ stop_words)

C11_Witness ==
    /\ kw_pc = "ret"
    /\ kw_text = <<"c","a","t","9"," ","x","_","j","u","m","p","s"," ","d","o","g",".">>
    /\ kw_out = <<<<"d","o","g">>>>

\* the run printed ev
Printed(ev) == \E n \in DOMAIN log : log[n].ev = ev

\* C12: a run makes at most one bulk call; the call is handed one action per
\* enriched chunk, in the order of the enriched chunks, and the index accounts for
\* each of them once; without the call no action exists and nothing is reported
\* indexed
C12_OneBulkCallInOrder ==
    /\ bulk_calls <= 1
    /\ bulk_calls = 0 =>
          /\ actions = <<>>
          /\ bulk_result.k = "none"
          /\ ~Printed("indexing_complete")
    /\ bulk_calls = 1 =>
          /\ Len(actions) = Len(enriched_chunks)
          /\ \A n \in DOMAIN actions :
                /\ actions[n].oid = enriched_chunks[n].oid
                /\ actions[n]._source.vector_field = enriched_chunks[n].vector_field
          /\ bulk_result.k = "returned" =>
                bulk_result.success_count + Len(bulk_result.failed) = Len(actions)
    /\ (pc = "exit" /\ Generated /\ enriched_chunks # <<>>) => bulk_calls = 1

C12_Witness ==
    /\ bulk_calls = 1
    /\ Len(actions) = 3
    /\ actions[1].oid < actions[2].oid
    /\ bulk_result.k = "returned"

\* C14: when the bulk call raises, main ends by raising, and the run prints neither
\* the indexing-complete report nor the completed-successfully report
C14_BulkErrorPropagates ==
    bulk_result.k = "raised" =>
        /\ raised
        /\ pc = "exit"
        /\ ~Printed("indexing_complete")
        /\ ~Printed("completed_successfully")
        /\ log[Len(log)].ev = "error_during_ingestion"
        /\ log[Len(log) - 1].ev = "bulk_error"

C14_Witness ==
    /\ bulk_result.k = "raised"
    /\ bulk_calls = 1
    /\ Len(actions) = 2

\* C15: with either credential missing, main stops at the credential test: it
\* prints which key is not set and nothing else, asks the index nothing, calls
\* neither the chunking service nor the embedding provider, writes nothing, and
\* returns without raising
C15_MissingCredentialStops ==
    (~unstructured_key \/ ~openai_key) =>
        /\ pc \in {"start", "exit"}
        /\ \A n \in DOMAIN log : log[n].ev = "key_not_set"
        /\ pc = "exit" => Len(log) = 1
        /\ elements = <<>> /\ chunks = <<>>
        /\ requests = <<>>
        /\ bulk_calls = 0 /\ actions = <<>>
        /\ ~raised

C15_Witness ==
    /\ unstructured_key /\ ~openai_key
    /\ pc = "exit"
    /\ log = <<[ev |-> "key_not_set", key |-> "OPENAI_API_KEY"]>>

\* C16: in every document handed to the index, content, text and page_content are
\* the same string, the text of the chunk, which is the resolved text of its element
C16_ThreeTextFieldsEqual ==
    \A n \in DOMAIN actions :
        LET doc == actions[n]._source
        IN  /\ doc.content = enriched_chunks[n].text
            /\ doc.text = enriched_chunks[n].text
            /\ doc.page_content = enriched_chunks[n].text
            /\ enriched_chunks[n].text = Resolved(enriched_chunks[n].oid)

C16_Witness ==
    \E n \in DOMAIN actions :
        /\ Len(actions[n]._source.page_content) = 150
        /\ actions[n]._source.title # <<>>
        /\ actions[n]._source.title # actions[n]._source.page_content

\* the position of the first ev the run printed, 0 when it printed none
FirstPrinted(ev) ==
    IF Printed(ev) THEN CHOOSE n \in DOMAIN log :
                            log[n].ev = ev /\ \A m \in 1..(n - 1) : log[m].ev # ev
    ELSE 0

\* main returned where it stands, without raising and without the success report
ReturnedQuietly ==
    /\ pc = "exit"
    /\ ~raised
    /\ ~Printed("completed_successfully")

\* C19: the stages of main run in the order index check, chunking call, filter,
\* embedding, bulk call, each after the one before it has finished and produced
\* something: an index that is missing or cannot be asked ends main before the
\* chunking call, a filter that keeps nothing before any embedding request, an
\* embedding stage that enriches nothing before the bulk call, and each time main
\* returns without raising and without reporting success
C19_StagesInOrder ==
    /\ Printed("received") =>
          /\ FirstPrinted("verify_index") < FirstPrinted("received")
          /\ log[FirstPrinted("verify_index")].answer = "exists"
    /\ Filtered => /\ Printed("received")
                   /\ FirstPrinted("received") < FirstPrinted("filtered")
    /\ requests # <<>> => Filtered /\ chunks # <<>>
    /\ Generated => /\ FirstPrinted("filtered") < FirstPrinted("generated")
                    /\ Len(requests) = Len(chunks)
    /\ bulk_calls > 0 => Generated /\ enriched_chunks # <<>>
    /\ \A n \in DOMAIN log :
          (log[n].ev = "verify_index" /\ log[n].answer # "exists") =>
              /\ n = Len(log)
              /\ ReturnedQuietly
              /\ elements = <<>> /\ requests = <<>> /\ bulk_calls = 0
    /\ (Filtered /\ chunks = <<>>) =>
          /\ ReturnedQuietly
          /\ requests = <<>> /\ bulk_calls = 0
    /\ (Generated /\ enriched_chunks = <<>>) =>
          /\ ReturnedQuietly
          /\ bulk_calls = 0

C19_Witness ==
    /\ Generated
    /\ enriched_chunks = <<>>
    /\ Len(requests) = 2
    /\ pc = "exit"
    /\ log[Len(log)].ev = "no_valid_embeddings"

\* the failures the run printed, in order
ShownFailures == SelectSeq(log, LAMBDA entry : entry.ev = "failed_item")

\* C13: when the index rejects some of the documents, index_to_opensearch does not
\* raise: the run prints the accepted and the rejected count as bulk() returned
\* them, the id and the reason of the first min(5, rejected) rejected documents in
\* their order and of no other, and then completes
C13_PartialFailureReported ==
    (bulk_result.k = "returned" /\ bulk_result.failed # <<>>) =>
        LET failed == bulk_result.failed
        IN  /\ ~raised
            /\ pc = "exit"
            /\ log[Len(log)].ev = "completed_successfully"
            /\ log[Len(log) - 1] =
                  [ev |-> "indexing_complete",
                   success_count |-> bulk_result.success_count,
                   failed_count |-> Len(failed)]
            /\ Len(ShownFailures) = Min(5, Len(failed))
            /\ \A n \in DOMAIN ShownFailures :
                  /\ ShownFailures[n].doc_id = failed[n].index._id
                  /\ ShownFailures[n].reason = failed[n].index.error.reason

C13_Witness ==
    /\ bulk_result.k = "returned"
    /\ bulk_result.success_count = 3
    /\ Len(bulk_result.failed) = 7
    /\ Len(ShownFailures) = 5
    /\ ShownFailures[5].doc_id = bulk_result.failed[5].index._id

\* the 8 accepted, 2 rejected example of C13
C13_Example ==
    /\ bulk_result.k = "returned"
    /\ bulk_result.success_count = 8
    /\ Len(bulk_result.failed) = 2
    /\ Len(ShownFailures) = 2
    /\ log[Len(log) - 1].success_count = 8
    /\ log[Len(log) - 1].failed_count = 2

\* filter_chunks resolved the text of fc_element to text: it is the text of the
\* chunk, or what was printed of the skipped element
ResolvedTo(text) ==
    IF fc_out.filtered # <<>>
    THEN /\ Len(fc_out.filtered) = 1
         /\ fc_out.filtered[1].text = text
         /\ fc_out.printed = <<>>
    ELSE fc_out.printed =
             <<[ev |-> "skipped", length |-> Len(text), preview |-> Take(text, 50)]>>

\* a string as it is, a list joined with single blanks after dropping the items
\* for which drop holds; then stripped
Coerced(val, drop(_)) ==
    Strip(IF val.k = "list"
          THEN Join(<<" ">>, SelectSeq(val.v, LAMBDA t : ~drop(t)))
          ELSE val.v)

\* C17 as stated: the text is the text field as it is when a string, all its items
\* joined with single blanks when a list (every item contributes, the empty ones
\* too); the content field is used only when there is no text field; the result is
\* stripped; an element with neither resolves to the empty string
C17_TextElseContent ==
    fc_pc = "ret" =>
        ResolvedTo(Coerced(IF "text" \in DOMAIN fc_element THEN fc_element.text
                           ELSE DictGet(fc_element, "content", Str(<<>>)),
                           LAMBDA t : FALSE))

\* C17 amended: the text is the text field as it is when a string, its non-empty
\* items joined with single blanks when a list; the content field is used in the
\* same way when the text field is missing or empty (an empty string or an empty
\* list); the result is stripped; an element with neither resolves to the empty
\* string
C17_NonEmptyTextElseContent ==
    fc_pc = "ret" =>
        ResolvedTo(Coerced(IF "text" \in DOMAIN fc_element /\ fc_element.text.v # <<>>
                           THEN fc_element.text
                           ELSE DictGet(fc_element, "content", Str(<<>>)),
                           LAMBDA t : t = <<>>))

C17_Witness ==
    /\ fc_pc = "ret"
    /\ DOMAIN fc_element = {"text", "content"}
    /\ fc_element.text = List(<<<<"a">>, <<>>, <<" ","b">>>>)
    /\ fc_out.printed[1].preview = <<"a"," "," ","b">>

\* the title of the one chunk is the title of the metadata if it has a non-empty
\* one, else its non-empty filename, else line if that is shorter than 100
\* characters, else empty; metadata that is no mapping has neither
TitleFrom(line) ==
    LET md == IF "metadata" \in DOMAIN fc_element /\ fc_element.metadata.k = "dict"
              THEN fc_element.metadata.d ELSE EmptyDict
    IN  fc_out.filtered[1].title =
            IF "title" \in DOMAIN md /\ md.title # <<>> THEN md.title
            ELSE IF "filename" \in DOMAIN md /\ md.filename # <<>> THEN md.filename
            ELSE IF Len(line) < 100 THEN line
            ELSE <<>>

\* C18 as stated: after title and filename of the metadata, the title is the first
\* line of the resolved text when that line is shorter than 100 characters
C18_TitleFromFirstLine ==
    (fc_pc = "ret" /\ fc_out.filtered # <<>>) =>
        TitleFrom(FirstLine(fc_out.filtered[1].text))

\* C18 amended: after title and filename of the metadata, the title is the first
\* line of the resolved text without the whitespace around it, when what is left
\* is shorter than 100 characters; 100 characters left give an empty title
C18_TitleFromStrippedFirstLine ==
    (fc_pc = "ret" /\ fc_out.filtered # <<>>) =>
        TitleFrom(Strip(FirstLine(fc_out.filtered[1].text)))

C18_Witness ==
    /\ fc_pc = "ret"
    /\ fc_out.filtered # <<>>
    /\ DOMAIN fc_element = {"text", "metadata"}
    /\ fc_element.metadata = Dict(EmptyDict)
    /\ FirstLine(fc_out.filtered[1].text) = Line(99) \o <<" ">>
    /\ fc_out.filtered[1].title = Line(99)

\* the raw products load_and_merge_products went through, in source order
RawList == raw_products(pr_files)

\* the raw products that pass normalization, as positions of RawList
Passing == {r \in DOMAIN RawList : _normalize_product(RawList[r]).k = "dict"}

\* C20: the returned products have pairwise distinct ids; each has an image_url
\* that is a string starting with http and a description of stripped length 40 or
\* more; each is a raw product that passes normalization, and of the passing raw
\* products that share an id the first in source order (additional, sample,
\* premium) is the one returned, whatever failing raw product had the id before
C20_MergedProducts ==
    pr_pc = "ret" =>
        LET out  == pr_out.normalized
            pass == SelectSeq(RawList, LAMBDA p : _normalize_product(p).k = "dict")
        IN  /\ \A m, n \in DOMAIN out : m # n => out[m].id # out[n].id
            /\ \A n \in DOMAIN out :
                  /\ out[n].image_url.k = "str"
                  /\ SubSeq(out[n].image_url.v, 1, 4) = <<"h","t","t","p">>
                  /\ Len(Strip(out[n].description.v)) >= 40
                  /\ \E r \in DOMAIN pass : pass[r].oid = out[n].oid
            /\ \A r \in DOMAIN pass :
                  LET first == CHOOSE q \in DOMAIN pass :
                                  /\ RawId(pass[q]) = RawId(pass[r])
                                  /\ \A t \in 1..(q - 1) : RawId(pass[t]) # RawId(pass[r])
                  IN  \E n \in DOMAIN out :
                         out[n].id = RawId(pass[r]) /\ out[n].oid = pass[first].oid

C20_Witness ==
    /\ pr_pc = "ret"
    /\ Len(RawList) = 3
    /\ RawList[1].oid[1] = 1 /\ RawList[2].oid[1] = 2 /\ RawList[3].oid[1] = 3
    /\ Schema(RawList[1]) = "additional" /\ RawId(RawList[1]) = "p1"
    /\ Passing = {2, 3}
    /\ RawId(RawList[2]) = "p1" /\ RawId(RawList[3]) = "p1"
    /\ Len(pr_out.normalized) = 1
    /\ pr_out.normalized[1].oid = <<2, 1>>

\* the image or text embedding of the n-th product could be generated
Embedded(kind, n) ==
    \E e \in DOMAIN ingest_log :
        /\ ingest_log[e].ev = kind
        /\ ingest_log[e].product = n
        /\ ingest_log[e].ok

\* C21: ingest_products ends with its summary, having made one index call per
\* product, in the order of the products, each with the product's id and a document
\* that lacks a vector field exactly when the embedding could not be generated; an
\* index call that raises does not stop the later ones; at the end success_count +
\* failed_count is the number of products and success_count the number of index
\* calls that did not raise
C21_OneIndexAttemptPerProduct ==
    /\ ingest_pc # "raised"
    /\ ingest_pc = "loop" => Len(index_calls) = idx
    /\ \A n \in DOMAIN index_calls :
          /\ n <= Len(products)
          /\ index_calls[n].id = products[n].id
          /\ index_calls[n].body.oid = products[n].oid
          /\ "image_embedding_vector" \in DOMAIN index_calls[n].body
                <=> Embedded("image_embedding", n)
          /\ "text_embedding_vector" \in DOMAIN index_calls[n].body
                <=> Embedded("text_embedding", n)
    /\ ingest_pc = "ret" =>
          /\ Len(index_calls) = Len(products)
          /\ ingest_success_count + ingest_failed_count = Len(products)
          /\ ingest_success_count =
                Cardinality({n \in DOMAIN index_calls : ~index_calls[n].raised})

====
